---- MODULE Spec2Model ----
(***************************************************************************)
(* Trunk metrics ingestion (src/trunk_metrics.py).                         *)
(*                                                                         *)
(* Two threads share three module-level dictionaries:                      *)
(*   - the websocket thread runs run_websocket: authenticate,              *)
(*     fetch_trunk_names, create_notification_channel, run_forever, and,   *)
(*     inside run_forever, the callbacks on_open and on_message;           *)
(*   - the dashboard thread runs generate_trunk_counters on every poll.    *)
(* A Python dict is modelled as the sequence of its items in insertion     *)
(* order; a defaultdict inserts its default on a read of a missing key.    *)
(* Thread switches can happen between any two source lines that touch the  *)
(* shared dictionaries, so each such line is one step.                     *)
(***************************************************************************)
EXTENDS Integers, Sequences, FiniteSets, TLC

\* ---------------------------------------------------------------- bounds
\* Largest call count an event reports.
MaxCount == 1
\* Number of distinct correlation ids generate_correlation_id can draw.
NumCorrIds == 2

\* ------------------------------------------------------------ environment
\* The tracked list imported from trunkID (line 27), in list order.
trunk_ids == <<"T1", "T2">>
Tracked == {trunk_ids[i] : i \in 1..Len(trunk_ids)}
\* Trunk ids an inbound event can carry: the tracked ones and a foreign one.
EventTrunkIds == Tracked \cup {"TX"}
\* Trunkbase names the directory service can answer with.
Groups == {"G", "H"}
Counts == 0..MaxCount
CorrIds == 1..NumCorrIds

None == "None"

\* ------------------------------------------------------------ Python dict
\* An iterated dict (call_counts, trunk_id_to_base_map) is the sequence of
\* its items [k |-> key, v |-> value] in insertion order.
Keys(d) == {d[i].k : i \in 1..Len(d)}
HasKey(d, key) == key \in Keys(d)
IndexOf(d, key) == CHOOSE i \in 1..Len(d) : d[i].k = key
\* d[key] = value: replaces in place, or appends a new item.
Store(d, key, value) ==
    IF HasKey(d, key)
    THEN [d EXCEPT ![IndexOf(d, key)] = [k |-> key, v |-> value]]
    ELSE Append(d, [k |-> key, v |-> value])

\* defaultdict(lambda: {"inbound": 0, "outbound": 0})
DefaultCounters == [inbound |-> 0, outbound |-> 0]
\* call_counts[name] on the defaultdict: inserts the default when missing.
Touch(d, key) == IF HasKey(d, key) THEN d ELSE Store(d, key, DefaultCounters)

\* trunk_counts is never iterated, so its item order is not kept: it is a
\* function on its key set.
\* trunk_counts[trunk_id] on the defaultdict: inserts the default when missing.
TouchCounts(tc, trunk_id) ==
    IF trunk_id \in DOMAIN tc THEN tc ELSE tc @@ (trunk_id :> DefaultCounters)
\* The value trunk_counts[trunk_id] evaluates to.
CountersOf(tc, trunk_id) ==
    IF trunk_id \in DOMAIN tc THEN tc[trunk_id] ELSE DefaultCounters
\* Mutant of SetField: the count is added to the stored one.
SetFieldAdd(tc, trunk_id, field, value) ==
    [TouchCounts(tc, trunk_id) EXCEPT ![trunk_id][field] = @ + value]

\* trunk_counts[trunk_id][field] = value.
SetField(tc, trunk_id, field, value) ==
    [TouchCounts(tc, trunk_id) EXCEPT ![trunk_id][field] = value]

\* JSON object .get(key, default); obj is a function on the keys it holds.
Get(obj, key, default) == IF key \in DOMAIN obj THEN obj[key] ELSE default

\* ------------------------------------------------------------------ state
VARIABLES
    \* shared module-level dictionaries
    call_counts,            \* trunkbase name -> counters (pre-populated keys)
    trunk_counts,           \* trunk id -> latest counters
    trunk_id_to_base_map,   \* trunk id -> trunkbase name
    \* websocket thread (run_websocket and the callbacks it runs)
    pc,                     \* position of the websocket thread
    api_client,             \* None or "client"
    channel,                \* None or "channel"
    ws,                     \* transport: "none", "connecting", "open", "closed"
    fetch_i,                \* trunks already looked up by fetch_trunk_names
    timer,                  \* time units left of the sleep of line 173
    prepop,                 \* names still to pre-populate (set iteration)
    sub_i,                  \* trunks already subscribed by the running batch
    correlation_id,         \* id of the running subscription batch
    msg,                    \* the event on_message is applying (lines 96-101)
    \* dashboard thread (generate_trunk_counters)
    rd,                     \* locals of the running read
    counters,               \* the list being built / returned
    \* main thread (line 218)
    main,                   \* "serving", "interrupted", "exited"
    \* history variables: they record what happened and steer nothing. Which
    \* of them are recorded is fixed by track for the whole behaviour.
    track,                  \* "events", "msgs", "reads", "pairs", "sums", "wire",
                            \* "resolve"
    lookup_ok,              \* resolve: the trunks whose lookup succeeds in the
                            \* resolution that begins next or is running
    resolved,               \* resolve: fetch_trunk_names of this epoch returned
    last_event,             \* events: trunk id -> <<in, out>> last applied
    handled,                \* events, msgs: the message whose handler just ended
    rd_clean,               \* reads: no dictionary changed since the read began
    prev_pair,              \* pairs: the pair the event in flight overwrites
    rd_in_ev,               \* pairs: pair of the event whose inbound was read
    rd_torn,                \* pairs: the pair just read mixes two events
    rd_sums,                \* sums: group totals at the instants of the read
    sent,                   \* wire: messages sent on the transport, in order
    batch                   \* wire: state of the subscription batch

shared == <<call_counts, trunk_counts, trunk_id_to_base_map>>
sup    == <<pc, api_client, channel, ws, fetch_i, timer, prepop, sub_i,
            correlation_id, msg>>
reader == <<rd, counters>>
\* What no step of the websocket thread or of the dashboard thread changes,
\* but for the steps that begin or end a resolution.
env    == <<track, main, lookup_ok, resolved>>
hist   == <<env, last_event, handled, rd_clean, prev_pair, rd_in_ev,
            rd_torn, rd_sums, sent, batch>>
vars   == <<shared, sup, reader, hist>>

\* ---------------------------------------------------------------- helpers
Pair(c) == <<c.inbound, c.outbound>>

\* Sum of one field over the first n items of the identity map whose
\* trunkbase name is name.
RECURSIVE SumField(_, _, _, _, _)
SumField(field, name, map, tc, n) ==
    IF n = 0 THEN 0
    ELSE SumField(field, name, map, tc, n - 1)
         + (IF map[n].v = name THEN CountersOf(tc, map[n].k)[field] ELSE 0)

\* The total of one group for the given dictionaries.
GroupTotal(name, map, tc) ==
    <<name, SumField("inbound", name, map, tc, Len(map)),
            SumField("outbound", name, map, tc, Len(map))>>

\* The totals of every pre-populated group for the given dictionaries.
GroupTotals(cc, map, tc) == {GroupTotal(cc[i].k, map, tc) : i \in 1..Len(cc)}

NoMsg == [kind |-> "none", trunk |-> None, calls_ok |-> TRUE, given |-> {},
          inbound |-> 0, outbound |-> 0, outcome |-> "none"]
\* events: the record of a handled message; replaced says that an applied
\* event overwrote a different pair reported earlier for its trunk.
Handled(m, outcome, repl) ==
    [kind |-> m.kind, trunk |-> m.trunk, calls_ok |-> m.calls_ok,
     given |-> m.given, inbound |-> m.inbound, outbound |-> m.outbound,
     outcome |-> outcome, replaced |-> repl]
NoHandled == Handled(NoMsg, "none", FALSE)
IdleRead == [pc |-> "idle", gi |-> 0, gsize |-> 0, ii |-> 0, isize |-> 0,
             name |-> None, trunk |-> None, tin |-> 0, tout |-> 0]

\* ---------------------------------------------------------------- history
\* sums: the group whose totals are recorded.
Watched == "G"
\* sums: the inbound total of the watched group at the instant after this
\* step, at every instant from the start of a read to its return.
Observe ==
    rd_sums' = IF track # "sums" \/ rd'.pc = "idle" THEN {}
               ELSE IF rd'.pc \in {"done", "raised"} THEN rd_sums
               ELSE rd_sums \cup {GroupTotal(Watched, trunk_id_to_base_map',
                                             trunk_counts')[2]}
\* reads: a step of the websocket thread that writes a shared dictionary.
Dirty == rd_clean' = (track # "reads" \/ rd.pc = "idle")
\* wire: a message goes out on the transport.
Sent(m) == sent' = IF track = "wire" THEN Append(sent, m) ELSE sent
Batch(b) == batch' = IF track = "wire" THEN b ELSE batch

\* ------------------------------------------------------------------- Init
\* Module import: empty dictionaries (lines 36-38); no thread has run yet.
Init ==
    /\ call_counts = <<>>
    /\ trunk_counts = <<>>
    /\ trunk_id_to_base_map = <<>>
    /\ pc = "loop"
    /\ api_client = None
    /\ channel = None
    /\ ws = "none"
    /\ fetch_i = 0
    /\ timer = 0
    /\ prepop = {}
    /\ sub_i = 0
    /\ correlation_id = 0
    /\ msg = NoMsg
    /\ rd = IdleRead
    /\ counters = <<>>
    /\ main = "serving"
    /\ lookup_ok = Tracked
    /\ resolved = FALSE
    /\ last_event = [t \in Tracked |-> <<>>]
    /\ handled = NoHandled
    /\ rd_clean = TRUE
    /\ prev_pair = <<>>
    /\ rd_in_ev = <<>>
    /\ rd_torn = FALSE
    /\ rd_sums = {}
    /\ sent = <<>>
    /\ batch = "none"

\* --------------------------------------------------- run_websocket (141-173)
\* time.sleep(5) at line 173, in time units.
BackoffSeconds == 5

\* Mutant of ExceptHandler: the client is kept, so that the next attempt
\* does not authenticate again.
ExceptHandlerKeepsClient ==
    /\ api_client' = api_client
    /\ channel' = None
    /\ timer' = BackoffSeconds
    /\ pc' = "sleep"

\* except Exception (lines 169-173): forget client and channel, then sleep.
ExceptHandler ==
    /\ api_client' = None
    /\ channel' = None
    /\ timer' = BackoffSeconds
    /\ pc' = "sleep"

\* resolve: the lookups that succeed in the resolution about to begin.
Lookups == IF track = "resolve" THEN SUBSET Tracked ELSE {lookup_ok}
\* What a step that begins or ends a resolution leaves alone.
quiet == <<track, main, last_event, handled, rd_clean, prev_pair, rd_in_ev,
           rd_torn, rd_sums, sent, batch>>
Resolved(b) == resolved' = IF track = "resolve" THEN b ELSE resolved

\* Mutant of Authenticate: fetch_trunk_names is not awaited, the supervisor
\* goes on to the channel at once.
AuthenticateNoFetch ==
    /\ pc = "loop" /\ api_client = None
    /\ api_client' = "client"
    /\ fetch_i' = 0
    /\ pc' = "chan"
    /\ \E ok \in Lookups : lookup_ok' = ok
    /\ Resolved(FALSE)
    /\ UNCHANGED <<shared, channel, ws, timer, prepop, sub_i, correlation_id, msg,
                   reader, quiet>>

\* Lines 148-150, authenticate() returns and fetch_trunk_names is entered.
Authenticate ==
    /\ pc = "loop" /\ api_client = None
    /\ api_client' = "client"
    /\ fetch_i' = 0
    /\ pc' = "fetch"
    /\ \E ok \in Lookups : lookup_ok' = ok
    /\ Resolved(FALSE)
    /\ UNCHANGED <<shared, channel, ws, timer, prepop, sub_i, correlation_id, msg,
                   reader, quiet>>

\* Lines 148-149 and 53-55, authenticate() raises.
AuthenticateFails ==
    /\ pc = "loop" /\ api_client = None
    /\ ExceptHandler
    /\ UNCHANGED <<shared, ws, fetch_i, prepop, sub_i, correlation_id, msg,
                   reader, hist>>

\* Line 148 with a client already held: straight to the channel test.
SkipAuthenticate ==
    /\ pc = "loop" /\ api_client # None
    /\ pc' = "chan"
    /\ UNCHANGED <<shared, api_client, channel, ws, fetch_i, timer, prepop, sub_i,
                   correlation_id, msg, reader, hist>>

\* One time unit of time.sleep(5) at line 173 passes.
Tick ==
    /\ pc = "sleep" /\ timer > 0
    /\ timer' = timer - 1
    /\ UNCHANGED <<shared, pc, api_client, channel, ws, fetch_i, prepop, sub_i,
                   correlation_id, msg, reader, hist>>

\* time.sleep(5) at line 173 is over.
Backoff ==
    /\ pc = "sleep" /\ timer = 0
    /\ pc' = "loop"
    /\ UNCHANGED <<shared, api_client, channel, ws, fetch_i, timer, prepop, sub_i,
                   correlation_id, msg, reader, hist>>

\* ------------------------------------------------ fetch_trunk_names (58-73)
\* Lines 61-65: one lookup succeeds and is stored.
FetchTrunk ==
    /\ pc = "fetch" /\ fetch_i < Len(trunk_ids)
    /\ track = "resolve" => trunk_ids[fetch_i + 1] \in lookup_ok
    /\ \E name \in Groups :
        trunk_id_to_base_map' =
            Store(trunk_id_to_base_map, trunk_ids[fetch_i + 1], name)
    /\ fetch_i' = fetch_i + 1
    /\ Dirty
    /\ UNCHANGED <<call_counts, trunk_counts, pc, api_client, channel, ws, timer, prepop,
                   sub_i, correlation_id, msg, reader, env, last_event,
                   handled, prev_pair, rd_in_ev, rd_torn, sent, batch>>
    /\ Observe

\* Line 62 raises: the except at line 72 ends the whole function, so the
\* remaining trunks are not looked up and nothing is pre-populated.
FetchTrunkFails ==
    /\ pc = "fetch" /\ fetch_i < Len(trunk_ids)
    /\ track = "resolve" => trunk_ids[fetch_i + 1] \notin lookup_ok
    /\ pc' = "chan"
    /\ Resolved(TRUE)
    /\ UNCHANGED <<shared, api_client, channel, ws, fetch_i, timer, prepop, sub_i,
                   correlation_id, msg, reader, lookup_ok, quiet>>

\* Line 68: the loop is over, the set of names in the map is taken.
FetchDone ==
    /\ pc = "fetch" /\ fetch_i = Len(trunk_ids)
    /\ prepop' = {trunk_id_to_base_map[i].v : i \in 1..Len(trunk_id_to_base_map)}
    /\ pc' = "prepop"
    /\ UNCHANGED <<shared, api_client, channel, ws, fetch_i, timer, sub_i, correlation_id,
                   msg, reader, hist>>

\* Mutant of Prepopulate: call_counts is rebuilt from the names of this
\* resolution instead of being added to.
PrepopulateReset ==
    /\ pc = "prepop"
    /\ \E name \in prepop :
        /\ call_counts' = IF prepop = {trunk_id_to_base_map[i].v :
                                          i \in 1..Len(trunk_id_to_base_map)}
                          THEN Touch(<<>>, name) ELSE Touch(call_counts, name)
        /\ prepop' = prepop \ {name}
    /\ Dirty
    /\ UNCHANGED <<trunk_counts, trunk_id_to_base_map, pc, api_client, channel, ws,
                   fetch_i, timer, sub_i, correlation_id, msg, reader, env, last_event,
                   handled, prev_pair, rd_in_ev, rd_torn, sent, batch>>
    /\ Observe

\* Lines 69-71: one name of the set (in the set's own order) is touched.
Prepopulate ==
    /\ pc = "prepop"
    /\ \E name \in prepop :
        /\ call_counts' = Touch(call_counts, name)
        /\ prepop' = prepop \ {name}
    /\ Dirty
    /\ UNCHANGED <<trunk_counts, trunk_id_to_base_map, pc, api_client, channel, ws,
                   fetch_i, timer, sub_i, correlation_id, msg, reader, env, last_event,
                   handled, prev_pair, rd_in_ev, rd_torn, sent, batch>>
    /\ Observe

\* The loop of lines 69-71 is over: fetch_trunk_names returns.
PrepopulateDone ==
    /\ pc = "prepop" /\ prepop = {}
    /\ pc' = "chan"
    /\ Resolved(TRUE)
    /\ UNCHANGED <<shared, api_client, channel, ws, fetch_i, timer, prepop, sub_i,
                   correlation_id, msg, reader, lookup_ok, quiet>>

\* ----------------------------------- create_notification_channel (76-84)
\* Lines 152-163: the channel is created and the WebSocketApp built; line
\* 165 then enters run_forever, which starts connecting.
CreateChannel ==
    /\ pc = "chan" /\ channel = None
    /\ channel' = "channel"
    /\ ws' = "connecting"
    /\ pc' = "run_forever"
    /\ sent' = <<>>
    /\ Batch("none")
    /\ UNCHANGED <<shared, api_client, fetch_i, timer, prepop, sub_i, correlation_id, msg,
                   reader, env, last_event, handled, rd_clean,
                   prev_pair, rd_in_ev, rd_torn, rd_sums>>

\* Line 153 raises (re-raised at line 84).
CreateChannelFails ==
    /\ pc = "chan" /\ channel = None
    /\ ExceptHandler
    /\ UNCHANGED <<shared, ws, fetch_i, prepop, sub_i, correlation_id, msg,
                   reader, hist>>

\* Line 152 with a channel already held: nothing to do, next iteration.
SkipChannel ==
    /\ pc = "chan" /\ channel # None
    /\ pc' = "loop"
    /\ UNCHANGED <<shared, api_client, channel, ws, fetch_i, timer, prepop, sub_i,
                   correlation_id, msg, reader, hist>>

\* ------------------------------------------------------ run_forever (165)
\* The connection is established: on_open runs (112-114) and
\* subscribe_to_trunk_metrics draws its correlation id (118).
OnOpen ==
    /\ pc = "run_forever" /\ ws = "connecting"
    /\ ws' = "open"
    /\ \E c \in CorrIds : correlation_id' = c
    /\ sub_i' = 0
    /\ pc' = "subscribe"
    /\ Batch("running")
    /\ UNCHANGED <<shared, api_client, channel, fetch_i, timer, prepop, msg, reader,
                   env, last_event, handled, rd_clean, prev_pair,
                   rd_in_ev, rd_torn, rd_sums, sent>>

\* The connection attempt fails: on_error and on_close only log (106-110)
\* and run_forever returns to line 165 without raising.
ConnectFails ==
    /\ pc = "run_forever" /\ ws = "connecting"
    /\ ws' = "closed"
    /\ pc' = "loop"
    /\ UNCHANGED <<shared, api_client, channel, fetch_i, timer, prepop, sub_i,
                   correlation_id, msg, reader, hist>>

\* The subscribe message of lines 120-125 for one trunk.
Topic(trunk_id) == <<"v2.telephony.providers.edges.trunks", trunk_id, "metrics">>
Subscription(trunk_id, corr) ==
    [message |-> "subscribe", topics |-> <<Topic(trunk_id)>>, correlationId |-> corr]

\* Mutant of SubscribeSend: every iteration sends the first trunk's topic.
SubscribeSendFirst ==
    /\ pc = "subscribe" /\ sub_i < Len(trunk_ids)
    /\ Sent(Subscription(trunk_ids[1], correlation_id))
    /\ sub_i' = sub_i + 1
    /\ UNCHANGED <<shared, pc, api_client, channel, ws, fetch_i, timer, prepop,
                   correlation_id, msg, reader, env, last_event,
                   handled, rd_clean, prev_pair, rd_in_ev, rd_torn, rd_sums, batch>>

\* Mutant of SubscribeSend: generate_correlation_id is called inside the
\* loop, once per message.
SubscribeSendFreshId ==
    /\ pc = "subscribe" /\ sub_i < Len(trunk_ids)
    /\ \E c \in CorrIds : Sent(Subscription(trunk_ids[sub_i + 1], c))
    /\ sub_i' = sub_i + 1
    /\ UNCHANGED <<shared, pc, api_client, channel, ws, fetch_i, timer, prepop,
                   correlation_id, msg, reader, env, last_event,
                   handled, rd_clean, prev_pair, rd_in_ev, rd_torn, rd_sums, batch>>

\* Lines 119-127: one iteration of the loop, ws.send succeeds.
SubscribeSend ==
    /\ pc = "subscribe" /\ sub_i < Len(trunk_ids)
    /\ Sent(Subscription(trunk_ids[sub_i + 1], correlation_id))
    /\ sub_i' = sub_i + 1
    /\ UNCHANGED <<shared, pc, api_client, channel, ws, fetch_i, timer, prepop,
                   correlation_id, msg, reader, env, last_event,
                   handled, rd_clean, prev_pair, rd_in_ev, rd_torn, rd_sums, batch>>

\* Mutant of SubscribeSendFails: the exception of line 126 leaves
\* run_forever and reaches the except of line 169 with the transport open.
SubscribeSendRaises ==
    /\ pc = "subscribe" /\ sub_i < Len(trunk_ids)
    /\ ExceptHandler
    /\ sub_i' = 0
    /\ correlation_id' = 0
    /\ Batch("aborted")
    /\ UNCHANGED <<shared, ws, fetch_i, prepop, msg, reader,
                   env, last_event, handled, rd_clean, prev_pair,
                   rd_in_ev, rd_torn, rd_sums, sent>>

\* Line 126 raises: the exception leaves on_open, the library's callback
\* wrapper reports it to on_error (a log line) and the receive loop goes on.
SubscribeSendFails ==
    /\ pc = "subscribe" /\ sub_i < Len(trunk_ids)
    /\ pc' = "stream"
    /\ sub_i' = 0
    /\ correlation_id' = 0
    /\ Batch("aborted")
    /\ UNCHANGED <<shared, api_client, channel, ws, fetch_i, timer, prepop, msg, reader,
                   env, last_event, handled, rd_clean, prev_pair,
                   rd_in_ev, rd_torn, rd_sums, sent>>

\* Mutant of SubscribeDone: the keep-alive of lines 130-138 is running and
\* sends its ping (line 134).
SubscribeDonePing ==
    /\ pc = "subscribe" /\ sub_i = Len(trunk_ids)
    /\ pc' = "stream"
    /\ sub_i' = 0
    /\ correlation_id' = 0
    /\ Batch("complete")
    /\ Sent([message |-> "ping"])
    /\ UNCHANGED <<shared, api_client, channel, ws, fetch_i, timer, prepop, msg, reader,
                   env, last_event, handled, rd_clean, prev_pair,
                   rd_in_ev, rd_torn, rd_sums>>

\* The loop of lines 119-127 is over; on_open returns to the receive loop.
\* keep_alive (130-138) is started nowhere (note at line 167).
SubscribeDone ==
    /\ pc = "subscribe" /\ sub_i = Len(trunk_ids)
    /\ pc' = "stream"
    /\ sub_i' = 0
    /\ correlation_id' = 0
    /\ Batch("complete")
    /\ UNCHANGED <<shared, api_client, channel, ws, fetch_i, timer, prepop, msg, reader,
                   env, last_event, handled, rd_clean, prev_pair,
                   rd_in_ev, rd_torn, rd_sums, sent>>

\* Mutant of TransportClose: the per-trunk counters are reset when the
\* transport goes down.
TransportCloseReset ==
    /\ pc = "stream"
    /\ ws' = "closed"
    /\ pc' = "loop"
    /\ trunk_counts' = <<>>
    /\ UNCHANGED <<call_counts, trunk_id_to_base_map, api_client, channel,
                   fetch_i, timer, prepop, sub_i, correlation_id, msg, reader, hist>>

\* The transport closes or fails while the receive loop waits: on_error and
\* on_close only log, run_forever returns normally to line 165.
TransportClose ==
    /\ pc = "stream"
    /\ ws' = "closed"
    /\ pc' = "loop"
    /\ UNCHANGED <<shared, api_client, channel, fetch_i, timer, prepop, sub_i,
                   correlation_id, msg, reader, hist>>

\* ------------------------------------------------------- on_message (87-104)
CallKeys == {"inboundCallCount", "outboundCallCount"}
\* The "calls" objects an event can carry: any subset of the two counts.
CallObjects == UNION {[S -> Counts] : S \in SUBSET CallKeys}
\* Payloads json.loads rejects, or whose shape breaks a .get of lines 91-92.
MalformedKinds == {"undecodable", "not_object", "body_not_object",
                   "trunk_not_object"}
\* Inbound messages: malformed payloads, objects with no trunk id (protocol
\* acknowledgements), and events with a trunk id and a "calls" value that is
\* an object (calls_ok) or something else.
Messages ==
    {[kind |-> k, trunk |-> None, calls_ok |-> TRUE, calls |-> <<>>]
        : k \in MalformedKinds \cup {"no_trunk"}}
    \cup {[kind |-> "event", trunk |-> t, calls_ok |-> TRUE, calls |-> c]
        : t \in EventTrunkIds, c \in CallObjects}
    \cup {[kind |-> "event", trunk |-> t, calls_ok |-> FALSE, calls |-> <<>>]
        : t \in EventTrunkIds}

\* Mutant of Accepted: the identity map is not consulted.
AcceptedAny(m) == m.kind = "event"

\* Line 95: trunk_id and trunk_id in trunk_id_to_base_map.
Accepted(m) == m.kind = "event" /\ HasKey(trunk_id_to_base_map, m.trunk)

\* Mutant of Outcome: a "calls" value that is no object is read as empty.
OutcomeNoCallsCheck(m) ==
    IF m.kind = "undecodable" THEN "decode_error"
    ELSE IF m.kind \in MalformedKinds THEN "raised"
    ELSE IF ~(m.kind = "event" /\ HasKey(trunk_id_to_base_map, m.trunk))
    THEN "ignored"
    ELSE "applying"

\* Mutant of Outcome: the counts are read with calls[key], so that an
\* event that omits one raises KeyError.
OutcomeStrict(m) ==
    IF m.kind = "undecodable" THEN "decode_error"
    ELSE IF m.kind \in MalformedKinds THEN "raised"
    ELSE IF ~Accepted(m) THEN "ignored"
    ELSE IF ~m.calls_ok THEN "raised"
    ELSE IF DOMAIN m.calls # CallKeys THEN "raised"
    ELSE "applying"

\* How the handler goes on for a message.
Outcome(m) ==
    IF m.kind = "undecodable" THEN "decode_error"       \* caught at line 103
    ELSE IF m.kind \in MalformedKinds THEN "raised"     \* AttributeError, 91-92
    ELSE IF ~Accepted(m) THEN "ignored"                 \* line 95 is false
    ELSE IF ~m.calls_ok THEN "raised"                   \* AttributeError, 97
    ELSE "applying"

\* The message as the handler reads it: counts default to 0 (lines 97-98).
\* msgs: given keeps the count keys the event carried.
Parsed(m) ==
    [kind |-> m.kind, trunk |-> m.trunk, calls_ok |-> m.calls_ok,
     given |-> IF track = "msgs" /\ m.kind = "event" /\ m.calls_ok
               THEN DOMAIN m.calls ELSE {},
     inbound  |-> IF m.kind = "event" /\ m.calls_ok
                  THEN Get(m.calls, "inboundCallCount", 0) ELSE 0,
     outbound |-> IF m.kind = "event" /\ m.calls_ok
                  THEN Get(m.calls, "outboundCallCount", 0) ELSE 0,
     outcome |-> Outcome(m)]

\* Lines 89-100 for one message: decode, test, and for an accepted event
\* write the inbound count. Every other message leaves the handler here: a
\* JSONDecodeError is caught at 103, any other exception is caught by the
\* library's callback wrapper, which calls on_error (a log line).
OnMessage ==
    /\ pc = "stream"
    /\ \E m \in Messages :
        IF Outcome(m) = "applying"
        THEN /\ trunk_counts' =
                   SetField(trunk_counts, m.trunk, "inbound", Parsed(m).inbound)
             /\ msg' = Parsed(m)
             /\ pc' = "msg_out"
             /\ prev_pair' = IF track = "pairs"
                             THEN Pair(CountersOf(trunk_counts, m.trunk))
                             ELSE prev_pair
             /\ Dirty
             /\ UNCHANGED handled
        ELSE /\ pc' = "msg_ret"
             /\ handled' = IF track = "msgs"
                           THEN Handled(Parsed(m), Outcome(m), FALSE) ELSE handled
             /\ UNCHANGED <<trunk_counts, msg, prev_pair, rd_clean>>
    /\ UNCHANGED <<call_counts, trunk_id_to_base_map, api_client, channel, ws,
                   fetch_i, timer, prepop, sub_i, correlation_id, reader, env,
                   last_event, rd_in_ev, rd_torn, sent, batch>>
    /\ Observe

\* Line 101: the outbound count of the accepted event is written.
OnMessageOutbound ==
    /\ pc = "msg_out"
    /\ trunk_counts' = SetField(trunk_counts, msg.trunk, "outbound", msg.outbound)
    /\ msg' = NoMsg
    /\ pc' = "msg_ret"
    /\ IF track \in {"events", "msgs"}
       THEN /\ handled' = Handled(msg, "applied",
                                   last_event[msg.trunk]
                                       \notin {<<>>, <<msg.inbound, msg.outbound>>})
            /\ last_event' = [last_event EXCEPT
                                 ![msg.trunk] = <<msg.inbound, msg.outbound>>]
       ELSE UNCHANGED <<handled, last_event>>
    /\ prev_pair' = <<>>
    /\ Dirty
    /\ UNCHANGED <<call_counts, trunk_id_to_base_map, api_client, channel, ws,
                   fetch_i, timer, prepop, sub_i, correlation_id, reader, env,
                   rd_in_ev, rd_torn, sent, batch>>
    /\ Observe

\* The handler is over; the receive loop of run_forever waits again.
OnMessageReturn ==
    /\ pc = "msg_ret"
    /\ pc' = "stream"
    /\ handled' = NoHandled
    /\ UNCHANGED <<shared, api_client, channel, ws, fetch_i, timer, prepop, sub_i,
                   correlation_id, msg, reader, env, last_event,
                   rd_clean, prev_pair, rd_in_ev, rd_torn, rd_sums, sent, batch>>

\* --------------------------------------- generate_trunk_counters (178-197)
\* The websocket thread is between lines 100 and 101 for this trunk.
InFlight(trunk_id) == pc = "msg_out" /\ msg.trunk = trunk_id

\* Lines 179-181: the list is created and iteration over the keys starts.
RdStart ==
    /\ rd.pc = "idle"
    /\ rd' = [IdleRead EXCEPT !.pc = "group", !.gsize = Len(call_counts)]
    /\ counters' = <<>>
    /\ rd_clean' = TRUE
    /\ UNCHANGED <<shared, sup, env, last_event, handled, prev_pair,
                   rd_in_ev, rd_torn, sent, batch>>
    /\ Observe

\* Line 181, next key: the iterator raises RuntimeError when the dictionary
\* changed size; at the end of the keys the list is returned (line 197).
RdNextGroup ==
    /\ rd.pc = "group"
    /\ rd' = IF Len(call_counts) # rd.gsize THEN [rd EXCEPT !.pc = "raised"]
             ELSE IF rd.gi = rd.gsize THEN [rd EXCEPT !.pc = "done"]
             ELSE [rd EXCEPT !.pc = "item", !.gi = rd.gi + 1,
                             !.name = call_counts[rd.gi + 1].k,
                             !.tin = 0, !.tout = 0,
                             !.ii = 0, !.isize = Len(trunk_id_to_base_map)]
    /\ UNCHANGED <<shared, sup, counters, env, last_event, handled,
                   rd_clean, prev_pair, rd_in_ev, rd_torn, sent, batch>>
    /\ Observe

\* Mutant of RdNextItem: the test of line 186 is missing, every trunk counts
\* for every group.
RdNextItemNoFilter ==
    /\ rd.pc = "item"
    /\ IF Len(trunk_id_to_base_map) # rd.isize
       THEN rd' = [rd EXCEPT !.pc = "raised"] /\ UNCHANGED counters
       ELSE IF rd.ii = rd.isize
       THEN /\ counters' = Append(counters, [name |-> rd.name, inbound |-> rd.tin,
                                             outbound |-> rd.tout])
            /\ rd' = [rd EXCEPT !.pc = "group", !.trunk = None, !.name = None,
                                !.tin = 0, !.tout = 0, !.ii = 0, !.isize = 0]
       ELSE /\ rd' = [rd EXCEPT !.ii = rd.ii + 1, !.pc = "inbound",
                                !.trunk = trunk_id_to_base_map[rd.ii + 1].k]
            /\ UNCHANGED counters
    /\ rd_torn' = FALSE
    /\ UNCHANGED <<shared, sup, env, last_event, handled, rd_clean,
                   prev_pair, rd_in_ev, sent, batch>>
    /\ Observe

\* Lines 185-186 and 190-196: next item of the identity map, or the end of
\* the items, where the group's counter is appended.
RdNextItem ==
    /\ rd.pc = "item"
    /\ IF Len(trunk_id_to_base_map) # rd.isize
       THEN rd' = [rd EXCEPT !.pc = "raised"] /\ UNCHANGED counters
       ELSE IF rd.ii = rd.isize
       THEN /\ counters' = Append(counters, [name |-> rd.name, inbound |-> rd.tin,
                                             outbound |-> rd.tout])
            /\ rd' = [rd EXCEPT !.pc = "group", !.trunk = None, !.name = None,
                                !.tin = 0, !.tout = 0, !.ii = 0, !.isize = 0]
       ELSE /\ rd' = IF trunk_id_to_base_map[rd.ii + 1].v = rd.name
                     THEN [rd EXCEPT !.ii = rd.ii + 1, !.pc = "inbound",
                                     !.trunk = trunk_id_to_base_map[rd.ii + 1].k]
                     ELSE [rd EXCEPT !.ii = rd.ii + 1, !.trunk = None]
            /\ UNCHANGED counters
    /\ rd_torn' = FALSE
    /\ UNCHANGED <<shared, sup, env, last_event, handled, rd_clean,
                   prev_pair, rd_in_ev, sent, batch>>
    /\ Observe

\* Line 187: total_inbound += trunk_counts[trunk_id]["inbound"].
RdInbound ==
    /\ rd.pc = "inbound"
    /\ trunk_counts' = TouchCounts(trunk_counts, rd.trunk)
    /\ rd' = [rd EXCEPT !.pc = "outbound",
                        !.tin = rd.tin + CountersOf(trunk_counts, rd.trunk).inbound]
    /\ rd_in_ev' = IF track # "pairs" THEN rd_in_ev
                   ELSE IF InFlight(rd.trunk) THEN <<msg.inbound, msg.outbound>>
                   ELSE Pair(CountersOf(trunk_counts, rd.trunk))
    /\ UNCHANGED <<call_counts, trunk_id_to_base_map, sup, counters, env,
                   last_event, handled, rd_clean, prev_pair, rd_torn,
                   sent, batch>>
    /\ Observe

\* Line 188: total_outbound += trunk_counts[trunk_id]["outbound"].
RdOutbound ==
    /\ rd.pc = "outbound"
    /\ trunk_counts' = TouchCounts(trunk_counts, rd.trunk)
    /\ rd' = [rd EXCEPT !.pc = "item",
                        !.tout = rd.tout + CountersOf(trunk_counts, rd.trunk).outbound]
    /\ IF track = "pairs"
       THEN LET used   == <<rd_in_ev[1], CountersOf(trunk_counts, rd.trunk).outbound>>
                out_ev == IF InFlight(rd.trunk) THEN prev_pair
                          ELSE Pair(CountersOf(trunk_counts, rd.trunk))
            IN  rd_torn' = (used \notin {rd_in_ev, out_ev})
       ELSE UNCHANGED rd_torn
    /\ rd_in_ev' = <<>>
    /\ UNCHANGED <<call_counts, trunk_id_to_base_map, sup, counters, env,
                   last_event, handled, rd_clean, prev_pair, sent, batch>>
    /\ Observe

\* The callback update_dashboard (209-210) is over: the list was returned,
\* or the RuntimeError ended the callback; the next poll starts afresh.
RdReturn ==
    /\ rd.pc \in {"done", "raised"}
    /\ rd' = IdleRead
    /\ counters' = <<>>
    /\ rd_clean' = TRUE
    /\ UNCHANGED <<shared, sup, env, last_event, handled, prev_pair,
                   rd_in_ev, rd_torn, sent, batch>>
    /\ Observe

\* ------------------------------------------------------- __main__ (213-218)
\* The shutdown request: the interrupt signal reaches the main thread, which
\* serves the dashboard at line 218. run_websocket has no stop flag and no
\* handler: nothing tells the websocket thread, which runs on.
ShutdownRequest ==
    /\ main = "serving"
    /\ main' = "interrupted"
    /\ UNCHANGED <<shared, sup, reader, track, lookup_ok, resolved, last_event,
                   handled, rd_clean, prev_pair, rd_in_ev, rd_torn, rd_sums,
                   sent, batch>>

\* app.run_server (line 218) has unwound and the interpreter exits: the
\* websocket thread is a daemon (line 215) and ends with the process at
\* whatever line it has reached; no code closes the transport.
ProcessExit ==
    /\ main = "interrupted"
    /\ main' = "exited"
    /\ pc' = "killed"
    /\ UNCHANGED <<shared, api_client, channel, ws, fetch_i, timer, prepop, sub_i,
                   correlation_id, msg, reader, track, lookup_ok, resolved,
                   last_event, handled, rd_clean, prev_pair, rd_in_ev, rd_torn,
                   rd_sums, sent, batch>>

\* ------------------------------------------------------------ specification
\* The websocket thread (run_websocket with the callbacks run_forever calls).
WebsocketThread ==
    \/ Authenticate \/ AuthenticateFails \/ SkipAuthenticate \/ Tick \/ Backoff
    \/ FetchTrunk \/ FetchTrunkFails \/ FetchDone
    \/ Prepopulate \/ PrepopulateDone
    \/ CreateChannel \/ CreateChannelFails \/ SkipChannel
    \/ OnOpen \/ ConnectFails
    \/ SubscribeSend \/ SubscribeSendFails \/ SubscribeDone
    \/ OnMessage \/ OnMessageOutbound \/ OnMessageReturn
    \/ TransportClose

\* The dashboard thread (one poll of update_dashboard at a time).
DashboardThread ==
    \/ RdStart \/ RdNextGroup \/ RdNextItem \/ RdInbound \/ RdOutbound
    \/ RdReturn

\* The main thread, from the shutdown request on.
MainThread == ShutdownRequest \/ ProcessExit

Next == WebsocketThread \/ DashboardThread

\* Both threads, with one family of history variables recorded.
InitEvents == Init /\ track = "events"
SpecEvents == InitEvents /\ [][Next]_vars
\* The websocket thread alone (the dashboard is not polled), recording every
\* message handled.
InitMsgs == Init /\ track = "msgs"
SpecMsgs   == InitMsgs /\ [][WebsocketThread]_vars
InitReads == Init /\ track = "reads"
SpecReads  == InitReads /\ [][Next]_vars
InitPairs == Init /\ track = "pairs"
SpecPairs  == InitPairs /\ [][Next]_vars
InitSums == Init /\ track = "sums"
SpecSums   == InitSums /\ [][Next]_vars

\* The websocket thread alone (the dashboard is not polled), recording what
\* goes out on the transport.
InitWire == Init /\ track = "wire"
SpecWire == InitWire /\ [][WebsocketThread]_vars

\* The same with the websocket thread always scheduled again (a daemon
\* thread that nothing blocks but its own sleeps and receives): for the
\* liveness claims.
FairSpec == SpecWire /\ WF_vars(WebsocketThread)

\* The websocket thread and the main thread's shutdown, recording what goes
\* out on the transport.
InitShutdown == Init /\ track = "wire"
SpecShutdown == InitShutdown /\ [][WebsocketThread \/ MainThread]_vars

\* The websocket thread alone, recording which lookups succeed and whether
\* the resolution of the epoch has returned.
InitResolve == Init /\ track = "resolve"
SpecResolve == InitResolve /\ [][WebsocketThread]_vars

\* ------------------------------------------------------------------ claims
Mapped(trunk_id) == HasKey(trunk_id_to_base_map, trunk_id)
Entry(c) == <<c.name, c.inbound, c.outbound>>
\* The transport is open and on_open is over.
Streaming == ws = "open" /\ pc \in {"stream", "msg_out", "msg_ret"}

\* C1: last-write-wins. Whenever no write to a trunk is in flight, the
\* stored counters of every trunk that had an event applied are exactly the
\* pair of the last event applied to it, whatever events for other trunks,
\* earlier events for the same trunk and dashboard reads came in between.
C1_LastWriteWins ==
    \A t \in Tracked :
        (last_event[t] # <<>> /\ ~InFlight(t))
            => /\ t \in DOMAIN trunk_counts
               /\ Pair(trunk_counts[t]) = last_event[t]

\* An event has just replaced a different pair reported earlier for its
\* trunk, and both trunks hold a reported pair.
C1_Witness ==
    /\ pc = "msg_ret" /\ handled.outcome = "applied" /\ handled.replaced
    /\ \A t \in Tracked : last_event[t] # <<>>
    /\ last_event["T1"] # last_event["T2"]

\* C2: a read during which no dictionary was written returns, for every
\* group, the sum of the inbound counts and the sum of the outbound counts
\* of exactly the trunks mapped to that group.
C2_GroupTotalIsSum ==
    (rd.pc # "idle" /\ rd_clean)
        => \A i \in 1..Len(counters) :
              Entry(counters[i]) = GroupTotal(counters[i].name,
                                              trunk_id_to_base_map, trunk_counts)

\* A quiet read returned a total made of two trunks, (1,0) + (1,1) = (2,1).
C2_Witness ==
    /\ rd.pc = "done" /\ rd_clean
    /\ \E i \in 1..Len(counters) :
          counters[i].inbound = 2 /\ counters[i].outbound = 1

\* C3: pair atomicity. The (inbound, outbound) pair a read takes for a
\* trunk is the pair of the event that wrote the inbound it read or of the
\* event that wrote the outbound it read (the initial (0,0) counting as an
\* event), never a mix of the two.
C3_PairAtomic == ~rd_torn

\* C4: point-in-time snapshot. The inbound total a completed read returns
\* for a group is the inbound sum of that group at some instant between the
\* start of the read and its return (which the returned pair needs, to be
\* the pair of sums of one instant).
C4_PointInTime ==
    rd.pc = "done"
        => \A i \in 1..Len(counters) :
              counters[i].name = Watched => counters[i].inbound \in rd_sums

UnmappedEventHandled ==
    /\ pc # "msg_ret" /\ pc' = "msg_ret"
    /\ handled'.kind = "event" /\ ~Mapped(handled'.trunk)

Malformed(h) ==
    h.kind \in MalformedKinds \/ (h.kind = "event" /\ ~h.calls_ok)

C8_ReconnectsAfterClose == (ws = "closed" /\ batch # "none") ~> (pc = "sleep")

\* C9 as claimed: a completed subscription batch is one message whose topic
\* list holds the topic of every tracked trunk.
C9_OneSubscribeMessage ==
    batch = "complete"
        => /\ Len(sent) = 1
           /\ \A t \in Tracked :
                 \E j \in 1..Len(sent[1].topics) : sent[1].topics[j] = Topic(t)

\* C9 as amended: a completed subscription batch is one subscribe message
\* per tracked trunk, in list order, each with that trunk's topic alone, so
\* that the batch covers the tracked set.
C9_SubscribePerTrunk ==
    batch = "complete"
        => /\ Len(sent) = Len(trunk_ids)
           /\ \A i \in 1..Len(trunk_ids) :
                 /\ sent[i].message = "subscribe"
                 /\ sent[i].topics = <<Topic(trunk_ids[i])>>

\* The batch is complete and the epoch streams.
C9_Witness == batch = "complete" /\ pc = "stream" /\ Len(sent) = Len(trunk_ids)

C11_ShutdownHonoured ==
    [][main = "interrupted"
         => /\ sent' = sent
            /\ pc' = "sleep" => pc = "sleep"]_vars

\* C12: a failure of authentication or of channel provisioning is absorbed.
\* The step that fails discards client and channel and starts the backoff of
\* 5 time units; the wait ends only when the 5 units have passed, with client
\* and channel still discarded, at the loop head, where the only way on is
\* a new authentication attempt; and the supervisor never stops for good.
C12_FailureAbsorbed ==
    /\ [](ENABLED WebsocketThread)
    /\ [][/\ (pc \in {"loop", "chan"} /\ pc' \notin {"fetch", "chan", "loop",
                                                    "run_forever"})
             => /\ pc' = "sleep" /\ timer' = BackoffSeconds
                /\ api_client' = None /\ channel' = None
          /\ (pc = "sleep" /\ pc' = "sleep") => timer' = timer - 1
          /\ (pc = "sleep" /\ pc' # "sleep")
             => /\ timer = 0 /\ pc' = "loop"
                /\ api_client' = None /\ channel' = None
          /\ (pc = "loop" /\ api_client = None)
             => pc' \in {"fetch", "sleep"}]_vars

\* A provisioning failure after a complete resolution was waited out and the
\* new attempt has authenticated again.
C12_Witness ==
    /\ pc = "fetch" /\ fetch_i = 0 /\ timer = 0
    /\ Len(trunk_id_to_base_map) = Len(trunk_ids)

\* C13: identity resolution tolerates partial failure. Once the resolution
\* of an epoch has returned, every tracked trunk whose own lookup succeeds
\* is in the identity map and its group is pre-registered.
C13_PartialResolution ==
    resolved
        => \A t \in lookup_ok :
              /\ Mapped(t)
              /\ HasKey(call_counts,
                        trunk_id_to_base_map[IndexOf(trunk_id_to_base_map, t)].v)

\* C14: at most one transport handle. A WebSocketApp is created only when
\* no transport is connecting or open, and a callback (on_open's batch, a
\* message handler) runs only on the one open transport, inside the
\* supervisor's own run_forever call.
C14_OneTransport ==
    /\ [](pc \in {"subscribe", "stream", "msg_out", "msg_ret"}
            => ws = "open" /\ channel # None)
    /\ [](pc \in {"loop", "fetch", "prepop", "chan", "sleep"}
            => ws \in {"none", "closed"})
    /\ [][(ws' = "connecting" /\ ws # "connecting")
            => ws \in {"none", "closed"}]_vars

\* A message handler is writing on the open transport after its batch.
C14_Witness == ws = "open" /\ pc = "msg_out" /\ batch = "complete"


\* C15: per-trunk counters persist. No step removes a trunk's counters, and
\* the counters of a trunk change only by the two writes of on_message for
\* an event of that trunk; every step of a reconnection cycle (failure,
\* backoff, authentication, resolution, provisioning, open, subscribe)
\* leaves them as they are.
C15_CountersPersist ==
    [][\A t \in EventTrunkIds :
          /\ t \in DOMAIN trunk_counts => t \in DOMAIN trunk_counts'
          /\ CountersOf(trunk_counts', t) # CountersOf(trunk_counts, t)
               => \/ pc = "stream" /\ pc' = "msg_out" /\ msg'.trunk = t
                  \/ pc = "msg_out" /\ msg.trunk = t]_vars

\* The transport of a streaming epoch went down and the supervisor is in
\* its loop again, while both trunks hold the pair last reported for them.
C15_Witness ==
    /\ ws = "closed" /\ pc = "chan"
    /\ last_event["T1"] = <<1, 1>> /\ last_event["T2"] = <<0, 1>>
    /\ \A t \in Tracked :
          t \in DOMAIN trunk_counts /\ Pair(trunk_counts[t]) = last_event[t]

\* C16: the resolution of an epoch has returned before its channel is
\* provisioned. While fetch_trunk_names runs there is no channel and no
\* transport, so no subscribe message goes out and no event is dispatched;
\* and whenever a channel is held, a transport exists or a callback runs,
\* the resolution of that epoch has returned.
C16_ResolvedBeforeChannel ==
    /\ pc \in {"fetch", "prepop"}
         => ~resolved /\ channel = None /\ ws \notin {"connecting", "open"}
    /\ (\/ channel # None
        \/ ws \in {"connecting", "open"}
        \/ pc \in {"run_forever", "subscribe", "stream", "msg_out", "msg_ret"})
         => resolved

\* An event is being applied in an epoch whose resolution mapped both trunks.
C16_Witness ==
    /\ pc = "msg_out" /\ resolved /\ ws = "open"
    /\ Len(trunk_id_to_base_map) = Len(trunk_ids)

\* C17: a subscription batch draws one correlation id when it begins and
\* every subscribe message it sends carries that id; a batch that has run to
\* completion has subscribed the topic of every tracked trunk exactly once,
\* in list order, all under the one id.
C17_BatchCorrelation ==
    /\ batch = "running"
         => /\ correlation_id \in CorrIds
            /\ Len(sent) = sub_i
            /\ \A i \in 1..Len(sent) :
                  sent[i] = Subscription(trunk_ids[i], correlation_id)
    /\ batch = "complete"
         => /\ Len(sent) = Len(trunk_ids)
            /\ \E c \in CorrIds :
                  \A i \in 1..Len(trunk_ids) :
                     sent[i] = Subscription(trunk_ids[i], c)

\* A completed batch whose messages all carry the second id.
C17_Witness ==
    /\ batch = "complete" /\ Len(sent) = Len(trunk_ids)
    /\ \A i \in 1..Len(sent) : sent[i].correlationId = NumCorrIds

\* C18: an event for a mapped trunk that omits a call count is applied all
\* the same, and the trunk's stored pair then holds 0 for every omitted
\* count and the reported value for every count given, whatever it held
\* before; a message with no event body or no trunk id is ignored and
\* changes none of the dictionaries.
C18_MissingCountsAsZero ==
    [][(pc # "msg_ret" /\ pc' = "msg_ret")
         => /\ (handled'.kind = "event" /\ handled'.calls_ok
                   /\ Mapped(handled'.trunk))
               => /\ handled'.outcome = "applied"
                  /\ Pair(CountersOf(trunk_counts', handled'.trunk))
                       = <<IF "inboundCallCount" \in handled'.given
                           THEN handled'.inbound ELSE 0,
                           IF "outboundCallCount" \in handled'.given
                           THEN handled'.outbound ELSE 0>>
            /\ handled'.kind = "no_trunk"
               => /\ handled'.outcome = "ignored"
                  /\ UNCHANGED shared]_vars

\* An event with no counts at all replaced the pair (1,1) reported earlier
\* for its trunk by (0,0).
C18_Witness ==
    /\ pc = "msg_ret" /\ handled.outcome = "applied" /\ handled.replaced
    /\ handled.given = {}
    /\ Pair(CountersOf(trunk_counts, handled.trunk)) = <<0, 0>>

\* C19: a snapshot read is read-only. No step of generate_trunk_counters
\* changes the per-trunk counter map (its key set included), the group keys
\* or the identity map.
C19_ReadOnly == [][rd' # rd => UNCHANGED shared]_vars

\* C20: a snapshot read always completes. The iteration over the group keys
\* and over the identity map never raises, whatever fetch_trunk_names adds
\* in the meantime.
C20_ReadCompletes == rd.pc # "raised"

====
